---- MODULE Spec2Model ----
(***************************************************************************)
(* Model of src/index.tsx: the SEO form controller (submit listener), the  *)
(* prompt selection, the response mapping (displayResults) and the result  *)
(* renderer (createResultItem, copy buttons).                              *)
(*                                                                         *)
(* Strings are sequences of atoms.  An atom is a single character, or a    *)
(* fixed chunk of text that holds none of the five reserved characters     *)
(* & < > " ' (a URL prefix, the text "undefined", ...), so that escaping   *)
(* and entity decoding, which work character by character, leave a chunk   *)
(* alone exactly as they leave its characters alone.                       *)
(*                                                                         *)
(* TLA+ strings are ASCII: the Cyrillic page types of the source are       *)
(* written in transliteration (see direction, service, disease, article).  *)
(***************************************************************************)
EXTENDS Naturals, Sequences, FiniteSets

VARIABLES
  apiKey,                 \* API_KEY is truthy (line 11)
  formFieldsetDisabled,   \* formFieldset.disabled
  apiKeyErrorHidden,      \* apiKeyError has class 'hidden'
  generateButtonDisabled, \* generateButton.disabled
  loadingSpinnerHidden,   \* loadingSpinner has class 'hidden'
  resultsHidden,          \* resultsContainer has class 'hidden'
  resultsContainer,       \* resultsContainer's content (its parsed innerHTML)
  pending,                \* generateContent calls awaited by a submit handler
  clipboard,              \* the system clipboard as this page wrote it
  event,                  \* the event whose handler ran last (history)
  itemContent,            \* EscapeSpec: the content handed to createResultItem
  itemResult              \* EscapeSpec: what createResultItem returned for it

ui == <<generateButtonDisabled, loadingSpinnerHidden, resultsHidden,
        resultsContainer>>

page == <<apiKey, formFieldsetDisabled, apiKeyErrorHidden>>

vars == <<apiKey, formFieldsetDisabled, apiKeyErrorHidden,
          generateButtonDisabled, loadingSpinnerHidden, resultsHidden,
          resultsContainer, pending, clipboard, event, itemContent,
          itemResult>>

---------------------------------------------------------------------------
(* Bounds *)

MaxTitleLen == 2

MaxContentLen == 3

MaxPending == 2

---------------------------------------------------------------------------
(* JavaScript values *)

Str(s) == [t |-> "string", s |-> s]

Undefined == [t |-> "undefined", s |-> <<>>]

\* An object or function value; s is the text its conversion to a string gives.
Obj(s) == [t |-> "object", s |-> s]

\* String(v), as the + operator and template literals apply it.
ToString(v) == IF v.t = "undefined" THEN <<"undefined">> ELSE v.s

\* Truthiness, as || and if apply it.
Truthy(v) ==
  CASE v.t = "undefined" -> FALSE
    [] v.t = "string" -> v.s # <<>>
    [] OTHER -> TRUE

RECURSIVE SeqsUpTo(_, _)
SeqsUpTo(S, n) ==
  IF n = 0 THEN {<<>>}
  ELSE LET shorter == SeqsUpTo(S, n - 1)
       IN  shorter \cup {Append(s, c) : s \in shorter, c \in S}

---------------------------------------------------------------------------
(* Page types.  The source's values are 'направление', 'услуга',           *)
(* 'заболевание', 'статья'; the specification calls them direction,        *)
(* service, disease and article.                                           *)

direction == "napravlenie"

service == "usluga"

disease == "zabolevanie"

article == "statya"

\* formData.get returns null for an absent field; as a property key, in
\* Array.prototype.includes against strings and in a template literal, null
\* behaves as the string "null" does.
Null == "null"

\* The page types a submission may carry: the four of the form, an
\* unrecognized one, an absent one, and two names every object inherits.
ArticleTypes ==
  {direction, service, disease, article, "foo", Null, "constructor",
   "__proto__"}

---------------------------------------------------------------------------
(* Prompt builder (lines 81-91) *)

CommercialInstruction == "commercial"

InformationalInstruction == "informational"

commercialTypesMutant == {direction, service, disease}

commercialTypes == {direction, service}

systemInstruction(articleType) ==
  IF articleType \in commercialTypes
  THEN CommercialInstruction
  ELSE InformationalInstruction

\* The generateContent request of lines 93-101: the prompt embeds the page
\* type and the title as submitted (untrimmed).
Request(articleTitle, articleType) ==
  [articleType |-> articleType,
   articleTitle |-> articleTitle,
   systemInstruction |-> systemInstruction(articleType)]

---------------------------------------------------------------------------
(* Title validation (line 70) *)

Whitespace == {" "}

TitleChars == Whitespace \cup {"a"}

Titles == SeqsUpTo(TitleChars, MaxTitleLen)

RECURSIVE TrimStart(_)
TrimStart(s) ==
  IF s # <<>> /\ Head(s) \in Whitespace THEN TrimStart(Tail(s)) ELSE s

RECURSIVE TrimEnd(_)
TrimEnd(s) ==
  IF s # <<>> /\ s[Len(s)] \in Whitespace
  THEN TrimEnd(SubSeq(s, 1, Len(s) - 1))
  ELSE s

trim(s) == TrimEnd(TrimStart(s))

TitleRejectedMutant(articleTitle) == ~Truthy(Str(articleTitle))

\* !articleTitle.trim()
TitleRejected(articleTitle) == ~Truthy(Str(trim(articleTitle)))

---------------------------------------------------------------------------
(* Result renderer: createResultItem (lines 175-193) *)

Reserved == {"&", "<", ">", "\"", "'"}

Entity(c) ==
  CASE c = "&" -> <<"&", "a", "m", "p", ";">>
    [] c = "<" -> <<"&", "l", "t", ";">>
    [] c = ">" -> <<"&", "g", "t", ";">>
    [] c = "\"" -> <<"&", "q", "u", "o", "t", ";">>
    [] c = "'" -> <<"&", "#", "0", "3", "9", ";">>

\* String.prototype.replace with a global one-character pattern.
RECURSIVE replace(_, _, _)
replace(s, c, by) ==
  IF s = <<>> THEN <<>>
  ELSE (IF Head(s) = c THEN by ELSE <<Head(s)>>) \o replace(Tail(s), c, by)

escapedContentMutant(content) ==
  replace(
    replace(
      replace(
        replace(replace(content, "<", Entity("<")), ">", Entity(">")),
        "\"", Entity("\"")),
      "'", Entity("'")),
    "&", Entity("&"))

\* Lines 177-182: five replace passes, & first.
escapedContent(content) ==
  replace(
    replace(
      replace(
        replace(replace(content, "&", Entity("&")), "<", Entity("<")),
        ">", Entity(">")),
      "\"", Entity("\"")),
    "'", Entity("'"))

\* content.replace throws a TypeError when content is not a string.
createResultItemThrows(content) == content.t # "string"

TypeErrorMessage == <<"Cannot read properties of undefined (reading 'replace')">>

\* The markup createResultItem returns: the label, and the escaped content
\* that it puts in the data-copycontent attribute and in the textarea.
createResultItem(label, content) ==
  [label |-> label, content |-> content.s,
   escapedContent |-> escapedContent(content.s)]

NoItem == [label |-> "", content |-> <<>>, escapedContent |-> <<>>]

---------------------------------------------------------------------------
(* What the HTML parser makes of the markup when innerHTML is assigned *)

IsPrefix(p, s) == Len(p) <= Len(s) /\ SubSeq(s, 1, Len(p)) = p

\* Character references are decoded left to right, each input character read
\* once; an & that starts none of the references stays.
RECURSIVE DecodeEntities(_)
DecodeEntities(s) ==
  IF s = <<>> THEN <<>>
  ELSE LET hits == {c \in Reserved : IsPrefix(Entity(c), s)}
       IN  IF hits # {}
           THEN LET c == CHOOSE x \in hits : TRUE
                IN  <<c>> \o DecodeEntities(SubSeq(s, Len(Entity(c)) + 1, Len(s)))
           ELSE <<Head(s)>> \o DecodeEntities(Tail(s))

\* A double-quoted attribute value ends at the first raw double quote.
RECURSIVE UpToQuote(_)
UpToQuote(s) ==
  IF s = <<>> \/ Head(s) = "\"" THEN <<>>
  ELSE <<Head(s)>> \o UpToQuote(Tail(s))

\* target.dataset.copycontent of the button parsed from the markup.
copycontent(markup) == DecodeEntities(UpToQuote(markup))

\* One .result-item element: its label, the content it was rendered from
\* (history, for the claims) and its button's data-copycontent.
ResultItem(item) ==
  [label |-> item.label, content |-> item.content,
   copycontent |-> copycontent(item.escapedContent)]

---------------------------------------------------------------------------
(* Response mapper: displayResults (lines 116-138) *)

Fields == {"url", "title", "description", "keywords"}

\* Property names every object literal inherits from Object.prototype, with
\* the text the inherited value converts to.
ObjectPrototype ==
  [constructor |-> <<"function Object() { [native code] }">>,
   __proto__ |-> <<"[object Object]">>]

\* urlPrefixes[articleType]: a property read on an object literal, which
\* finds the four own keys and then the inherited ones.
urlPrefixes(articleType) ==
  CASE articleType = direction -> Str(<<"https://www.emcmos.ru/directions/">>)
    [] articleType = service ->
         Str(<<"https://www.emcmos.ru/programs_and_services/services/">>)
    [] articleType = disease -> Str(<<"https://www.emcmos.ru/disease/">>)
    [] articleType = article -> Str(<<"https://www.emcmos.ru/articles/">>)
    [] articleType \in DOMAIN ObjectPrototype ->
         Obj(ObjectPrototype[articleType])
    [] OTHER -> Undefined

\* (urlPrefixes[articleType] || '') + data.url
fullUrl(data, articleType) ==
  LET prefix == urlPrefixes(articleType)
  IN  Str(ToString(IF Truthy(prefix) THEN prefix ELSE Str(<<>>))
          \o ToString(data.url))

\* The four createResultItem calls of the template literal, in order.
Contents(data, articleType) ==
  <<[label |-> "URL", content |-> fullUrl(data, articleType)],
    [label |-> "Title", content |-> data.title],
    [label |-> "Description", content |-> data.description],
    [label |-> "Keywords", content |-> data.keywords]>>

EmptyHTML == [items |-> <<>>, failure |-> FALSE, message |-> <<>>]

\* The two paragraphs of line 107: the fixed text, then error.message.
FailureHTML(message) == [items |-> <<>>, failure |-> TRUE, message |-> message]

\* displayResults(data, articleType): the template literal is evaluated in
\* full before innerHTML is assigned, so a throwing createResultItem call
\* leaves the container as it was.
displayResults(data, articleType, container) ==
  LET cs == Contents(data, articleType)
      threw == \E i \in 1..Len(cs) : createResultItemThrows(cs[i].content)
  IN  IF threw
      THEN [threw |-> TRUE, message |-> TypeErrorMessage,
            container |-> container]
      ELSE [threw |-> FALSE, message |-> <<>>,
            container |->
              [items |->
                 [i \in 1..Len(cs) |->
                    ResultItem(createResultItem(cs[i].label, cs[i].content))],
               failure |-> FALSE, message |-> <<>>]]

---------------------------------------------------------------------------
(* The generative service, as the submit handler sees it *)

ContentValues == {<<>>, <<"\"", "&", "<">>}

FieldValues == {Undefined} \cup {Str(s) : s \in ContentValues}

SeoData == [Fields -> FieldValues]

NoData == [f \in Fields |-> Undefined]

NoResponse == [kind |-> "none", message |-> <<>>, data |-> NoData]

\* How an awaited generateContent call ends: it rejects with an Error; it
\* resolves with a text JSON.parse rejects; with the text "null"; or with
\* the text of an object holding some of the four fields.
Outcomes ==
  {[kind |-> "reject", message |-> <<"fetch failed">>, data |-> NoData],
   [kind |-> "text", message |-> <<"Unexpected token">>, data |-> NoData],
   [kind |-> "null", message |-> <<"Cannot read properties of null (reading 'url')">>,
    data |-> NoData]}
  \cup {[kind |-> "object", message |-> <<>>, data |-> d] : d \in SeoData}

\* Lines 93-104, from the point where the awaited call settles: what the
\* try block threw, if anything, and the container it leaves.
tryBlock(outcome, articleType, container) ==
  IF outcome.kind = "object"
  THEN displayResults(outcome.data, articleType, container)
  ELSE [threw |-> TRUE, message |-> outcome.message, container |-> container]

catchBlockMutant(message, container) == container

\* Lines 105-107.
catchBlock(message, container) == FailureHTML(message)

---------------------------------------------------------------------------
(* Page load (lines 55-61) *)

apiKeyCheckMutant(key) == [fieldsetDisabled |-> FALSE, errorHidden |-> key]

\* if (!API_KEY): show the configuration error and disable the fieldset.
apiKeyCheck(key) == [fieldsetDisabled |-> ~key, errorHidden |-> key]

\* The record kept of the event handled last: which handler ran and on what
\* (a submission's title; the page type of a settled call, the response it
\* brought and how the try block ended; the copy button clicked).
Event(kind, articleTitle, articleType, response, how, index) ==
  [kind |-> kind, title |-> articleTitle, articleType |-> articleType,
   response |-> response, how |-> how, index |-> index]

NoEvent == Event("load", <<>>, "", NoResponse, "", 0)

NoClipboard == [written |-> FALSE, text |-> <<>>]

\* The page as loaded.  Whether the results container starts hidden is set
\* by the page's markup; either way it is empty.
Init ==
  /\ apiKey \in BOOLEAN
  /\ formFieldsetDisabled = apiKeyCheck(apiKey).fieldsetDisabled
  /\ apiKeyErrorHidden = apiKeyCheck(apiKey).errorHidden
  /\ generateButtonDisabled = FALSE
  /\ loadingSpinnerHidden = TRUE
  /\ resultsHidden \in BOOLEAN
  /\ resultsContainer = EmptyHTML
  /\ pending = <<>>
  /\ clipboard = NoClipboard
  /\ event = NoEvent
  /\ itemContent = <<>>
  /\ itemResult = NoItem

---------------------------------------------------------------------------
(* The submit listener (lines 63-114) *)

\* The browser dispatches a submit event from the submit control only while
\* the control is enabled: neither it nor the fieldset around it is disabled.
CanSubmit == ~formFieldsetDisabled /\ ~generateButtonDisabled

\* The user activates the submit control while it is disabled: no event.
BlockedSubmit ==
  /\ ~CanSubmit
  /\ event' = Event("blocked", <<>>, "", NoResponse, "", 0)
  /\ UNCHANGED <<page, ui, pending, clipboard, itemContent, itemResult>>

loadingStateMutant ==
  /\ generateButtonDisabled' = generateButtonDisabled
  /\ loadingSpinnerHidden' = FALSE
  /\ resultsHidden' = TRUE
  /\ resultsContainer' = EmptyHTML

\* Lines 74-78.
loadingState ==
  /\ generateButtonDisabled' = TRUE
  /\ loadingSpinnerHidden' = FALSE
  /\ resultsHidden' = TRUE
  /\ resultsContainer' = EmptyHTML

finallyBlockMutant ==
  /\ generateButtonDisabled' = FALSE
  /\ loadingSpinnerHidden' = TRUE
  /\ resultsHidden' = resultsHidden

\* Lines 108-113.
finallyBlock ==
  /\ generateButtonDisabled' = FALSE
  /\ loadingSpinnerHidden' = TRUE
  /\ resultsHidden' = FALSE

\* The listener up to its await (lines 64-101): the empty-title guard, the
\* loading state, and the request.
Submit(articleTitle, articleType) ==
  /\ CanSubmit
  /\ Len(pending) < MaxPending
  /\ event' = Event("submit", articleTitle, "", NoResponse, "", 0)
  /\ IF TitleRejected(articleTitle)
     THEN UNCHANGED <<ui, pending>>
     ELSE /\ loadingState
          /\ pending' = Append(pending, Request(articleTitle, articleType))
  /\ UNCHANGED <<page, clipboard, itemContent, itemResult>>

Remove(s, i) == SubSeq(s, 1, i - 1) \o SubSeq(s, i + 1, Len(s))

\* The listener from the point where its awaited call settles (lines
\* 103-113): parse, render, catch, finally.
Settle(i, outcome) ==
  /\ i \in 1..Len(pending)
  /\ LET r == tryBlock(outcome, pending[i].articleType, resultsContainer)
     IN  /\ resultsContainer' =
              IF r.threw THEN catchBlock(r.message, r.container)
              ELSE r.container
         /\ event' = Event("settle", <<>>, pending[i].articleType, outcome,
                            IF r.threw THEN "threw" ELSE "rendered", 0)
  /\ finallyBlock
  /\ pending' = Remove(pending, i)
  /\ UNCHANGED <<page, clipboard, itemContent, itemResult>>

---------------------------------------------------------------------------
(* The copy buttons (lines 140-153) *)

\* The click listener of the i-th rendered copy button: the write to the
\* clipboard.  The button's label, which the listener changes for two
\* seconds once the write has resolved, is not part of the model.
CopyClick(i) ==
  /\ i \in 1..Len(resultsContainer.items)
  /\ LET content == resultsContainer.items[i].copycontent
     IN  clipboard' = IF Truthy(Str(content))
                      THEN [written |-> TRUE, text |-> content]
                      ELSE clipboard
  /\ event' = Event("copy", <<>>, "", NoResponse, "", i)
  /\ UNCHANGED <<page, ui, pending, itemContent, itemResult>>

---------------------------------------------------------------------------

Next ==
  \/ \E articleTitle \in Titles, articleType \in ArticleTypes :
       Submit(articleTitle, articleType)
  \/ BlockedSubmit
  \/ \E i \in 1..MaxPending, outcome \in Outcomes : Settle(i, outcome)
  \/ \E i \in 1..4 : CopyClick(i)

Spec == Init /\ [][Next]_vars

---------------------------------------------------------------------------
(* createResultItem on its own: every content up to MaxContentLen *)

ContentChars == Reserved \cup {"a", ";"}

Labels == {"URL", "Title", "Description", "Keywords"}

EscapeInit ==
  /\ apiKey = TRUE
  /\ formFieldsetDisabled = apiKeyCheck(apiKey).fieldsetDisabled
  /\ apiKeyErrorHidden = apiKeyCheck(apiKey).errorHidden
  /\ generateButtonDisabled = FALSE
  /\ loadingSpinnerHidden = TRUE
  /\ resultsHidden = FALSE
  /\ resultsContainer = EmptyHTML
  /\ pending = <<>>
  /\ clipboard = NoClipboard
  /\ event = NoEvent
  /\ itemContent \in SeqsUpTo(ContentChars, MaxContentLen)
  /\ itemResult = NoItem

CreateItem(label) ==
  /\ itemResult = NoItem
  /\ itemResult' = createResultItem(label, Str(itemContent))
  /\ UNCHANGED <<page, ui, pending, clipboard, event, itemContent>>

EscapeNext == \E label \in Labels : CreateItem(label)

EscapeSpec == EscapeInit /\ [][EscapeNext]_vars

---------------------------------------------------------------------------
(* The claims *)

Idle == ~generateButtonDisabled /\ loadingSpinnerHidden /\ ~resultsHidden

Loading ==
  /\ generateButtonDisabled
  /\ ~loadingSpinnerHidden
  /\ resultsHidden
  /\ resultsContainer = EmptyHTML

AllFour(container) ==
  /\ ~container.failure
  /\ [i \in DOMAIN container.items |-> container.items[i].label]
       = <<"URL", "Title", "Description", "Keywords">>

IsFailure(container) == container.failure /\ container.items = <<>>

\* C1: whichever way an accepted submission ends (rendered, call rejected,
\* parse threw, render threw), the handler finishes with the button enabled,
\* the busy indicator hidden and the results container visible; with no
\* handler suspended the loading state is never held.
C1_IdleOnEveryExit ==
  /\ event.kind = "settle" => Idle
  /\ pending = <<>> => ~generateButtonDisabled /\ loadingSpinnerHidden

\* C1 witness: a submission whose rendering threw has finished.
C1_Witness ==
  /\ event.kind = "settle"
  /\ event.response.kind = "object"
  /\ event.how = "threw"
  /\ Idle

\* C2: a parsed response object that lacks any one of url, title,
\* description, keywords ends in the failure message with no item rendered.
C2_MissingFieldFails ==
  (/\ event.kind = "settle"
   /\ event.response.kind = "object"
   /\ \E f \in Fields : event.response.data[f] = Undefined)
  => IsFailure(resultsContainer)

ClaimedPrefix(articleType) ==
  CASE articleType = direction -> <<"https://www.emcmos.ru/directions/">>
    [] articleType = service ->
         <<"https://www.emcmos.ru/programs_and_services/services/">>
    [] articleType = disease -> <<"https://www.emcmos.ru/disease/">>
    [] articleType = article -> <<"https://www.emcmos.ru/articles/">>
    [] OTHER -> <<>>

\* C3: for a response with slug s the displayed URL is the table prefix of
\* the page type followed by s, and exactly s for every page type that is
\* not a table key; the lookup itself never makes the rendering fail.
C3_UrlIsPrefixPlusSlug ==
  (/\ event.kind = "settle"
   /\ event.response.kind = "object"
   /\ \A f \in Fields : event.response.data[f] # Undefined)
  => /\ AllFour(resultsContainer)
     /\ resultsContainer.items[1].content
          = ClaimedPrefix(event.articleType) \o event.response.data["url"].s

IsBlank(title) == \A i \in 1..Len(title) : title[i] \in Whitespace

\* C4: a submission whose title is empty or only whitespace issues no
\* request and leaves the button, the busy indicator and the results
\* container (visibility and content) as they were.
C4_BlankTitleChangesNothing ==
  [][(event'.kind = "submit" /\ IsBlank(event'.title))
       => UNCHANGED <<ui, pending, page, clipboard>>]_vars

\* C4 witness: a whitespace-only submission was handled while the results
\* of an earlier submission were on display.
C4_Witness ==
  /\ event.kind = "submit"
  /\ event.title = <<" ">>
  /\ AllFour(resultsContainer)
  /\ pending = <<>>

\* C5: without a credential the fieldset is disabled and the configuration
\* error is shown from page load on, in every reachable state, and no
\* request is ever issued (no submission is handled, none is pending).
C5_NoKeyFormStaysDisabled ==
  ~apiKey =>
    /\ formFieldsetDisabled
    /\ ~apiKeyErrorHidden
    /\ pending = <<>>
    /\ event.kind \notin {"submit", "settle"}

\* C5 witness: without a credential, the user tried the submit control.
C5_Witness == ~apiKey /\ event.kind = "blocked" /\ formFieldsetDisabled

\* C6: at most one request is pending; while one is pending the button is
\* disabled, the busy indicator shown and the results container hidden and
\* empty; the button is re-enabled only by a step that leaves none pending.
C6_NoOverlap ==
  /\ [](/\ Len(pending) <= 1
        /\ pending # <<>> => Loading)
  /\ [][(generateButtonDisabled /\ ~generateButtonDisabled')
          => pending' = <<>>]_vars

\* C6 witness: the submit control was tried while a request was pending.
C6_Witness == Len(pending) = 1 /\ event.kind = "blocked" /\ Loading

\* C7: when the call rejects or its text does not parse, the results area
\* is the failure message with the error's text and no item; after any
\* completed submission it holds all four items or the failure message,
\* never some of the items and never both.
C7_FailureOrAllFour ==
  /\ (event.kind = "settle" /\ event.response.kind \in {"reject", "text"})
       => resultsContainer = FailureHTML(event.response.message)
  /\ event.kind = "settle"
       => (AllFour(resultsContainer) /\ resultsContainer.message = <<>>)
          \/ IsFailure(resultsContainer)
  /\ \/ resultsContainer = EmptyHTML
     \/ AllFour(resultsContainer)
     \/ IsFailure(resultsContainer)

\* C7 witness: a submission whose call rejected has completed.
C7_Witness ==
  /\ event.kind = "settle"
  /\ event.response.kind = "reject"
  /\ IsFailure(resultsContainer)

\* C8: a request for page type direction or service carries the commercial
\* instruction, a request for any other page type (disease, article,
\* unrecognized, absent) the informational one; the two differ, so each
\* request carries exactly one of them.
C8_InstructionByPageType ==
  /\ CommercialInstruction # InformationalInstruction
  /\ \A i \in 1..Len(pending) :
       /\ pending[i].articleType \in {direction, service}
            => pending[i].systemInstruction = CommercialInstruction
       /\ pending[i].articleType
            \in {disease, article, "foo", Null, "constructor", "__proto__"}
            => pending[i].systemInstruction = InformationalInstruction
       /\ pending[i].articleType \in ArticleTypes

\* C8 witness: a request for an absent page type is pending.
C8_Witness ==
  /\ pending # <<>>
  /\ pending[1].articleType = Null
  /\ pending[1].systemInstruction = InformationalInstruction

\* Each character mapped on its own, once: the reserved five to their
\* entities, every other character to itself.
RECURSIVE EscapeEach(_)
EscapeEach(s) ==
  IF s = <<>> THEN <<>>
  ELSE (CASE Head(s) = "&" -> <<"&", "a", "m", "p", ";">>
          [] Head(s) = "<" -> <<"&", "l", "t", ";">>
          [] Head(s) = ">" -> <<"&", "g", "t", ";">>
          [] Head(s) = "\"" -> <<"&", "q", "u", "o", "t", ";">>
          [] Head(s) = "'" -> <<"&", "#", "0", "3", "9", ";">>
          [] OTHER -> <<Head(s)>>)
       \o EscapeEach(Tail(s))

\* C9: the escaped content createResultItem builds is the content with each
\* of & < > " ' replaced by its entity, once, every other character kept in
\* place; it holds no raw < > " or '.
C9_EscapesExactlyFive ==
  itemResult # NoItem =>
    /\ itemResult.escapedContent = EscapeEach(itemContent)
    /\ \A i \in 1..Len(itemResult.escapedContent) :
         itemResult.escapedContent[i] \notin {"<", ">", "\"", "'"}

\* C9 witness: createResultItem has run on a content that holds an &, a
\* quote and text that looks like the tail of an entity.
C9_Witness ==
  /\ itemResult # NoItem
  /\ itemContent = <<"&", "\"", ";">>

\* C10: activating the copy button of a rendered value v writes exactly v
\* to the clipboard, for every rendered value.
C10_CopyWritesValue ==
  event.kind = "copy" =>
    clipboard = [written |-> TRUE,
                 text |-> resultsContainer.items[event.index].content]

====
